---- MODULE Spec2Model ----
(***************************************************************************)
(* Notes API backend (FastAPI + Firestore): the note store, the listing    *)
(* pipeline (owner query, search filter, sort, pagination), the request    *)
(* validators and the create / update / delete handlers, each handler      *)
(* split at its store calls so that concurrent workers interleave.         *)
(*                                                                         *)
(* Representation.  A Python str is a sequence of one-character strings.   *)
(* A Python dict is a function whose DOMAIN is its key set (an absent key  *)
(* is a key outside the DOMAIN).  An Optional value is a sequence of       *)
(* length 0 (None / JSON null) or 1 (the value).                           *)
(***************************************************************************)
EXTENDS Integers, Sequences, FiniteSets, TLC

\* ---------------------------------------------------------------- bounds
MaxNotes == 1       \* documents ever added to the collection (Spec)
MaxNotesConc == 1   \* documents ever added to the collection (SpecConc)
MaxNotesIso == 2    \* documents ever added to the collection (SpecIso)
MaxTime == 2        \* last clock value datetime.utcnow() returns
MaxListLen == 3     \* documents in the collection (SpecList)
NumWorkers == 2     \* concurrent request workers (SpecConc)

\* ------------------------------------------------------- program constants
TitleMaxLen == 200
ContentMaxLen == 10000
PageSizeMax == 100

\* --------------------------------------------------------------- strings
None == <<>>
Some(v) == <<v>>

Min(a, b) == IF a < b THEN a ELSE b
Max(a, b) == IF a < b THEN b ELSE a

\* the letters the model's strings are written with
UpperLetters == <<"A", "B", "C", "D", "E", "F", "K", "O", "R", "W", "X", "Y">>
LowerLetters == <<"a", "b", "c", "d", "e", "f", "k", "o", "r", "w", "x", "y">>

\* str.lower() on one character
LowerChar(c) ==
    IF \E i \in 1..Len(UpperLetters) : UpperLetters[i] = c
    THEN LowerLetters[CHOOSE i \in 1..Len(UpperLetters) : UpperLetters[i] = c]
    ELSE c

\* str.upper() on one character
UpperChar(c) ==
    IF \E i \in 1..Len(LowerLetters) : LowerLetters[i] = c
    THEN UpperLetters[CHOOSE i \in 1..Len(LowerLetters) : LowerLetters[i] = c]
    ELSE c

Lower(s) == [i \in 1..Len(s) |-> LowerChar(s[i])]
Upper(s) == [i \in 1..Len(s) |-> UpperChar(s[i])]

Whitespace == {" ", "\n", "\t"}

\* str.strip(): drop leading and trailing whitespace
Strip(s) ==
    LET keep == {i \in 1..Len(s) : s[i] \notin Whitespace}
    IN  IF keep = {} THEN <<>>
        ELSE LET lo == CHOOSE i \in keep : \A j \in keep : i <= j
                 hi == CHOOSE i \in keep : \A j \in keep : j <= i
             IN  SubSeq(s, lo, hi)

\* Python's `a in b` on strings
IsSubstr(a, b) ==
    \E i \in 0..(Len(b) - Len(a)) : SubSeq(b, i + 1, i + Len(a)) = a

HexDigits ==
    {"0", "1", "2", "3", "4", "5", "6", "7", "8", "9",
     "a", "b", "c", "d", "e", "f", "A", "B", "C", "D", "E", "F"}

\* re.match("^#[0-9A-Fa-f]{6}$", s): in Python `$` matches at the end of the
\* string and also just before a newline that ends the string.
ColorRegexMatch(s) ==
    /\ Len(s) \in {7, 8}
    /\ s[1] = "#"
    /\ \A i \in 2..7 : s[i] \in HexDigits
    /\ Len(s) = 8 => s[8] = "\n"

DefaultColor == <<"#", "F", "F", "F", "F", "F", "F">>

\* dict.get(k, default)
Get(d, k, default) == IF k \in DOMAIN d THEN d[k] ELSE default

\* dict merge: d.update(u)
Merge(d, u) ==
    [k \in (DOMAIN d) \cup (DOMAIN u) |-> IF k \in DOMAIN u THEN u[k] ELSE d[k]]

\* ------------------------------------------------- schemas (pydantic v1)
Invalid == [ok |-> FALSE]
Valid(v) == [ok |-> TRUE, v |-> v]

\* NoteBase.validate_not_empty
validate_not_empty(v) ==
    IF v = <<>> \/ Strip(v) = <<>> THEN Invalid ELSE Valid(Strip(v))

\* Field(..., min_length=1, max_length=n), then the class validator
ConstrainedStr(v, maxLen) ==
    IF Len(v) < 1 \/ Len(v) > maxLen THEN Invalid ELSE validate_not_empty(v)

\* NoteBase.validate_color
validate_color(v) == IF v = None THEN Some(DefaultColor) ELSE Some(Upper(v[1]))

\* Field(regex="^#[0-9A-Fa-f]{6}$") on an Optional[str], then the validator
\* (pydantic skips both for None)
ColorField(v) ==
    IF v = None THEN Valid(None)
    ELSE IF ColorRegexMatch(v[1]) THEN Valid(validate_color(v)) ELSE Invalid

\* NoteCreate(**body): body is the JSON object, a dict of Optional values
ParseNoteCreate(body) ==
    LET title == IF "title" \in DOMAIN body /\ body.title # None
                 THEN ConstrainedStr(body.title[1], TitleMaxLen) ELSE Invalid
        content == IF "content" \in DOMAIN body /\ body.content # None
                   THEN ConstrainedStr(body.content[1], ContentMaxLen) ELSE Invalid
        is_pinned == IF "is_pinned" \notin DOMAIN body THEN Valid(FALSE)
                     ELSE IF body.is_pinned = None THEN Invalid
                     ELSE Valid(body.is_pinned[1])
        tags == IF "tags" \notin DOMAIN body THEN Some(<<>>) ELSE body.tags
        color == IF "color" \notin DOMAIN body THEN Valid(Some(DefaultColor))
                 ELSE ColorField(body.color)
    IN  IF title.ok /\ content.ok /\ is_pinned.ok /\ color.ok
        THEN Valid([title |-> title.v, content |-> content.v,
                    is_pinned |-> is_pinned.v, tags |-> tags, color |-> color.v])
        ELSE Invalid

\* NoteUpdate.validate_not_empty_if_provided, after min_length / max_length
validate_not_empty_if_provided(v, maxLen) ==
    IF v = None THEN Valid(None)
    ELSE IF Len(v[1]) < 1 \/ Len(v[1]) > maxLen THEN Invalid
    ELSE IF Strip(v[1]) = <<>> THEN Invalid
    ELSE Valid(Some(Strip(v[1])))

\* NoteUpdate.validate_color_if_provided, after the regex
validate_color_if_provided(v) ==
    IF v = None THEN Valid(None)
    ELSE IF ColorRegexMatch(v[1]) THEN Valid(Some(Upper(v[1]))) ELSE Invalid

\* NoteUpdate(**body)
ParseNoteUpdate(body) ==
    LET title == validate_not_empty_if_provided(Get(body, "title", None), TitleMaxLen)
        content == validate_not_empty_if_provided(Get(body, "content", None), ContentMaxLen)
        color == validate_color_if_provided(Get(body, "color", None))
    IN  IF title.ok /\ content.ok /\ color.ok
        THEN Valid([title |-> title.v, content |-> content.v,
                    is_pinned |-> Get(body, "is_pinned", None),
                    tags |-> Get(body, "tags", None), color |-> color.v])
        ELSE Invalid

\* Query(1, ge=1) and Query(20, ge=1, le=100)
ValidListQuery(page, page_size) ==
    page >= 1 /\ page_size >= 1 /\ page_size <= PageSizeMax

\* NoteModel(...).to_dict()
NoteModel(user_id, title, content, is_pinned, tags, color, created_at, updated_at) ==
    [user_id |-> user_id, title |-> title, content |-> content,
     is_pinned |-> is_pinned,
     tags |-> IF tags = None THEN <<>> ELSE tags[1],
     color |-> IF color = None \/ color[1] = <<>> THEN DefaultColor ELSE color[1],
     created_at |-> created_at, updated_at |-> updated_at, synced |-> TRUE]

\* NoteResponse(id=note_data['id'], ...): a missing key raises, NoteBase's
\* validators run again on the stored values; the response carries no user_id
NoteResponse(note_data) ==
    IF ~({"id", "title", "content", "created_at", "updated_at"} \subseteq DOMAIN note_data)
    THEN Invalid ELSE
    LET base == ParseNoteCreate(
                  [title |-> Some(note_data.title), content |-> Some(note_data.content),
                   is_pinned |-> Some(Get(note_data, "is_pinned", FALSE)),
                   tags |-> Some(Get(note_data, "tags", <<>>)),
                   color |-> Some(Get(note_data, "color", DefaultColor))])
    IN  IF base.ok
        THEN Valid([id |-> note_data.id, title |-> base.v.title,
                    content |-> base.v.content, is_pinned |-> base.v.is_pinned,
                    tags |-> base.v.tags[1], color |-> base.v.color[1],
                    created_at |-> note_data.created_at,
                    updated_at |-> note_data.updated_at])
        ELSE Invalid

\* ------------------------------------------------------ identity verifier
TokAlice == <<"t", "A">>
TokBob == <<"t", "B">>
TokNoUid == <<"t", "N">>
TokEmptyUid == <<"t", "E">>
TokExpired == <<"t", "X">>
TokBlank == <<" ">>
TokEmpty == <<>>

\* what firebase_auth.verify_id_token decodes; any other token raises
DecodedTokens ==
    (TokAlice :> [uid |-> "alice", email |-> "a@x"])
    @@ (TokBob :> [uid |-> "bob"])
    @@ (TokNoUid :> [email |-> "n@x"])
    @@ (TokEmptyUid :> [uid |-> ""])

\* FirebaseService.verify_user
verify_user(id_token) ==
    IF id_token = <<>> \/ Strip(id_token) = <<>> THEN None
    ELSE IF id_token \in DOMAIN DecodedTokens THEN Some(DecodedTokens[id_token])
    ELSE None

\* a dependency that forgets to test the payload's uid
get_current_user_any_payload(token) ==
    LET user_data == verify_user(token)
    IN  IF user_data = None
        THEN [ok |-> FALSE, status |-> 401,
              detail |-> "Invalid or expired authentication token"]
        ELSE [ok |-> TRUE, user_id |-> Get(user_data[1], "uid", "")]

\* get_current_user
get_current_user(token) ==
    LET user_data == verify_user(token)
    IN  IF user_data = None
        THEN [ok |-> FALSE, status |-> 401,
              detail |-> "Invalid or expired authentication token"]
        ELSE IF Get(user_data[1], "uid", "") = ""
        THEN [ok |-> FALSE, status |-> 401, detail |-> "Invalid token payload"]
        ELSE [ok |-> TRUE, user_id |-> user_data[1].uid]

\* ------------------------------------------- note store and note service
VARIABLES
    notes,    \* the 'notes' collection: document id -> document (a dict)
    nextId,   \* number of document ids the store has generated
    now,      \* the clock datetime.utcnow() reads
    pc,       \* per worker: where its request handler stands
    local,    \* per worker: its current (or last) request and the handler's locals
    resp,     \* per worker: the HTTP response of its last finished request
    calls     \* per worker: the store calls its current request has issued

vars == <<notes, nextId, now, pc, local, resp, calls>>

Workers == 1..NumWorkers

RECURSIVE SortedIds(_)
\* the ids of a set in ascending order: the order a query streams documents
SortedIds(S) ==
    IF S = {} THEN <<>>
    ELSE LET m == CHOOSE i \in S : \A j \in S : i <= j
         IN  <<m>> \o SortedIds(S \ {m})

\* doc.to_dict() with note_data['id'] = doc.id
NoteData(store, id) == Merge(store[id], [id |-> id])

\* a stream that forgets the where(user_id == ...) filter
QueryAllOwners(store, user_id) ==
    LET ids == SortedIds(DOMAIN store)
    IN  [k \in 1..Len(ids) |-> NoteData(store, ids[k])]

\* notes_collection().where(user_id == user_id).stream()
QueryByOwner(store, user_id) ==
    LET ids == SortedIds({i \in DOMAIN store :
                            /\ "user_id" \in DOMAIN store[i]
                            /\ store[i].user_id = user_id})
    IN  [k \in 1..Len(ids) |-> NoteData(store, ids[k])]

\* a search that forgets to lower-case the search term
MatchesSearchTermAsIs(note_data, search) ==
    IF search = None \/ search[1] = <<>> THEN TRUE
    ELSE LET tags == Get(note_data, "tags", <<>>)
         IN  \/ IsSubstr(search[1], Lower(Get(note_data, "title", <<>>)))
             \/ IsSubstr(search[1], Lower(Get(note_data, "content", <<>>)))
             \/ \E t \in 1..Len(tags) : IsSubstr(search[1], Lower(tags[t]))

\* the search predicate of get_user_notes; search is an Optional[str]
MatchesSearch(note_data, search) ==
    IF search = None \/ search[1] = <<>> THEN TRUE
    ELSE LET search_lower == Lower(search[1])
             tags == Get(note_data, "tags", <<>>)
         IN  \/ IsSubstr(search_lower, Lower(Get(note_data, "title", <<>>)))
             \/ IsSubstr(search_lower, Lower(Get(note_data, "content", <<>>)))
             \/ \E t \in 1..Len(tags) : IsSubstr(search_lower, Lower(tags[t]))

FilterNotes(stream, search) ==
    SelectSeq(stream, LAMBDA n : MatchesSearch(n, search))

\* a sort key that forgets the minus sign: oldest first
SortKeyAscending(x) ==
    << ~Get(x, "is_pinned", FALSE),
       IF "updated_at" \in DOMAIN x THEN x.updated_at ELSE 0 >>

\* the sort key: (not is_pinned, -(updated_at.timestamp() or 0))
SortKey(x) ==
    << ~Get(x, "is_pinned", FALSE),
       IF "updated_at" \in DOMAIN x THEN 0 - x.updated_at ELSE 0 >>

\* Python's tuple order on keys (False < True)
KeyLE(a, b) == \/ (~a[1] /\ b[1])
               \/ (a[1] = b[1] /\ a[2] <= b[2])

\* one step of a stable sort: x goes after every element whose key is <= its key
InsertByKey(sorted, x) ==
    LET k == Cardinality({i \in 1..Len(sorted) : KeyLE(SortKey(sorted[i]), SortKey(x))})
    IN  SubSeq(sorted, 1, k) \o <<x>> \o SubSeq(sorted, k + 1, Len(sorted))

RECURSIVE SortNotes(_)
\* list.sort(key=...): stable
SortNotes(s) ==
    IF s = <<>> THEN <<>>
    ELSE InsertByKey(SortNotes(SubSeq(s, 1, Len(s) - 1)), s[Len(s)])

\* Python's s[a:b]
PySlice(s, a, b) ==
    LET lo == IF a < 0 THEN Max(a + Len(s), 0) ELSE Min(a, Len(s))
        hi == IF b < 0 THEN Max(b + Len(s), 0) ELSE Min(b, Len(s))
    IN  IF lo >= hi THEN <<>> ELSE SubSeq(s, lo + 1, hi)

\* a pagination that takes the page number as zero-based
PaginateZeroBased(all_notes, page, page_size) ==
    PySlice(all_notes, page * page_size, page * page_size + page_size)

Paginate(all_notes, page, page_size) ==
    LET start_idx == (page - 1) * page_size
        end_idx == start_idx + page_size
    IN  PySlice(all_notes, start_idx, end_idx)

\* FirebaseService.get_user_notes
get_user_notes(store, user_id, search, page, page_size) ==
    LET all_notes == SortNotes(FilterNotes(QueryByOwner(store, user_id), search))
        total == Len(all_notes)
    IN  [notes |-> Paginate(all_notes, page, page_size),
         total |-> total, page |-> page, page_size |-> page_size,
         total_pages |-> (total + page_size - 1) \div page_size]

\* a lookup that forgets the ownership check
get_note_by_id_any_owner(store, note_id, user_id) ==
    IF note_id \notin DOMAIN store THEN None ELSE Some(NoteData(store, note_id))

\* FirebaseService.get_note_by_id
get_note_by_id(store, note_id, user_id) ==
    IF note_id \notin DOMAIN store THEN None
    ELSE IF Get(store[note_id], "user_id", "") # user_id THEN None
    ELSE Some(NoteData(store, note_id))

\* --------------------------------------------------------- request handlers
NoLocal == [kind |-> "none"]
NoResp == [status |-> 0]

UpdateFields == {"title", "content", "is_pinned", "tags", "color"}

\* the request ends: the worker returns this response
Respond(p, r) ==
    /\ pc' = [pc EXCEPT ![p] = "idle"]
    /\ resp' = [resp EXCEPT ![p] = r]
    /\ UNCHANGED local

\* the handler goes on to its next store call
Continue(p, to, l) ==
    /\ pc' = [pc EXCEPT ![p] = to]
    /\ local' = [local EXCEPT ![p] = l]
    /\ UNCHANGED resp

Called(p, op) == calls' = [calls EXCEPT ![p] = Append(@, op)]

\* creates accepted and not yet added to the collection
PendingCreates ==
    Cardinality({q \in Workers : pc[q] \in {"received", "handler"}
                                 /\ local[q].kind = "create"})

\* a request with a bearer token arrives at an idle worker
Receive(p, Requests, maxNotes) ==
    /\ pc[p] = "idle"
    /\ \E r \in Requests :
         /\ r.kind = "create" => nextId + PendingCreates < maxNotes
         /\ local' = [local EXCEPT ![p] = r]
    /\ pc' = [pc EXCEPT ![p] = "received"]
    /\ calls' = [calls EXCEPT ![p] = <<>>]
    /\ resp' = [resp EXCEPT ![p] = NoResp]
    /\ UNCHANGED <<notes, nextId, now>>

\* the endpoint's parameters: Depends(get_current_user), then the Query / body
\* models; a failed dependency ends the request before the parameters are
\* validated, a failed validation before the endpoint body runs
SolveDependencies(p) ==
    /\ pc[p] = "received"
    /\ LET r == local[p]
           auth == get_current_user(r.token)
           Enter(extra) ==
               Continue(p, "handler", Merge(r, Merge([current_user |-> auth.user_id], extra)))
           Unprocessable == Respond(p, [status |-> 422, detail |-> "validation error"])
       IN  IF ~auth.ok
           THEN Respond(p, [status |-> auth.status, detail |-> auth.detail])
           ELSE CASE r.kind = "list" ->
                       IF ValidListQuery(r.page, r.page_size)
                       THEN Enter(<<>>) ELSE Unprocessable
                  [] r.kind = "create" ->
                       LET note == ParseNoteCreate(r.body)
                       IN  IF note.ok THEN Enter([note |-> note.v]) ELSE Unprocessable
                  [] r.kind = "update" ->
                       LET note_update == ParseNoteUpdate(r.body)
                       IN  IF note_update.ok THEN Enter([note_update |-> note_update.v])
                           ELSE Unprocessable
                  [] r.kind = "delete" -> Enter(<<>>)
    /\ UNCHANGED <<notes, nextId, now, calls>>

\* GET /notes
GetNotes(p) ==
    /\ pc[p] = "handler" /\ local[p].kind = "list"
    /\ LET r == local[p]
           result == get_user_notes(notes, r.current_user, r.search, r.page, r.page_size)
           items == [i \in 1..Len(result.notes) |-> NoteResponse(result.notes[i])]
       IN  IF \A i \in 1..Len(items) : items[i].ok
           THEN Respond(p, [status |-> 200,
                            body |-> [notes |-> [i \in 1..Len(items) |-> items[i].v],
                                      total |-> result.total, page |-> result.page,
                                      page_size |-> result.page_size]])
           ELSE Respond(p, [status |-> 500, detail |-> "Failed to fetch notes"])
    /\ Called(p, "stream")
    /\ UNCHANGED <<notes, nextId, now>>

\* POST /notes up to FirebaseService.create_note: the two clock reads and add()
CreateNote(p) ==
    /\ pc[p] = "handler" /\ local[p].kind = "create"
    /\ \E updated_at \in {now, Min(now + 1, MaxTime)} :
         LET r == local[p]
             note_id == nextId + 1
             note == NoteModel(r.current_user, r.note.title, r.note.content,
                               r.note.is_pinned, r.note.tags, r.note.color,
                               now, updated_at)
         IN  /\ notes' = [i \in (DOMAIN notes) \cup {note_id} |->
                            IF i = note_id THEN note ELSE notes[i]]
             /\ nextId' = note_id
             /\ now' = updated_at
             /\ Continue(p, "create_refetch", Merge(r, [note_id |-> note_id]))
    /\ Called(p, "add")

\* POST /notes: get_note_by_id of the created note, then the 201 response
CreateRefetch(p) ==
    /\ pc[p] = "create_refetch"
    /\ LET r == local[p]
           created_note == get_note_by_id(notes, r.note_id, r.current_user)
       IN  IF created_note = None
           THEN Respond(p, [status |-> 500, detail |-> "Failed to retrieve created note"])
           ELSE LET out == NoteResponse(created_note[1])
                IN  IF out.ok THEN Respond(p, [status |-> 201, body |-> out.v])
                    ELSE Respond(p, [status |-> 500, detail |-> "Failed to create note"])
    /\ Called(p, "get")
    /\ UNCHANGED <<notes, nextId, now>>

\* PUT /notes/{id} up to the write: update_data, the ownership check of
\* FirebaseService.update_note and its clock read
UpdateCheck(p) ==
    /\ pc[p] = "handler" /\ local[p].kind = "update"
    /\ LET r == local[p]
           supplied == {f \in UpdateFields : r.note_update[f] # None}
           update_data == [f \in supplied |-> r.note_update[f][1]]
           existing_note == get_note_by_id(notes, r.note_id, r.current_user)
       IN  IF existing_note = None
           THEN Respond(p, [status |-> 404, detail |->
                  "Note not found or you don't have permission to update it"])
           ELSE Continue(p, "update_write",
                  Merge(r, [update_data |-> Merge(update_data, [updated_at |-> now])]))
    /\ Called(p, "get")
    /\ UNCHANGED <<notes, nextId, now>>

\* a write that replaces the document (set) instead of merging into it (update)
UpdateWriteReplace(p) ==
    /\ pc[p] = "update_write"
    /\ LET r == local[p]
       IN  IF r.note_id \in DOMAIN notes
           THEN /\ notes' = [notes EXCEPT ![r.note_id] = r.update_data]
                /\ Continue(p, "update_refetch", r)
           ELSE /\ notes' = notes
                /\ Respond(p, [status |-> 500, detail |-> "Failed to update note"])
    /\ Called(p, "update")
    /\ UNCHANGED <<nextId, now>>

\* a write that creates the document when it is gone (set with merge)
UpdateWriteUpsert(p) ==
    /\ pc[p] = "update_write"
    /\ LET r == local[p]
       IN  /\ notes' = [i \in (DOMAIN notes) \cup {r.note_id} |->
                          IF i \in DOMAIN notes /\ i = r.note_id
                          THEN Merge(notes[i], r.update_data)
                          ELSE IF i = r.note_id THEN r.update_data ELSE notes[i]]
           /\ Continue(p, "update_refetch", r)
    /\ Called(p, "update")
    /\ UNCHANGED <<nextId, now>>

\* document(note_id).update(update_data): fails when the document is gone
UpdateWrite(p) ==
    /\ pc[p] = "update_write"
    /\ LET r == local[p]
       IN  IF r.note_id \in DOMAIN notes
           THEN /\ notes' = [notes EXCEPT ![r.note_id] = Merge(@, r.update_data)]
                /\ Continue(p, "update_refetch", r)
           ELSE /\ notes' = notes
                /\ Respond(p, [status |-> 500, detail |-> "Failed to update note"])
    /\ Called(p, "update")
    /\ UNCHANGED <<nextId, now>>

\* PUT /notes/{id}: get_note_by_id of the updated note, then the 200 response
UpdateRefetch(p) ==
    /\ pc[p] = "update_refetch"
    /\ LET r == local[p]
           updated_note == get_note_by_id(notes, r.note_id, r.current_user)
       IN  IF updated_note = None
           THEN Respond(p, [status |-> 500, detail |-> "Failed to retrieve updated note"])
           ELSE LET out == NoteResponse(updated_note[1])
                IN  IF out.ok THEN Respond(p, [status |-> 200, body |-> out.v])
                    ELSE Respond(p, [status |-> 500, detail |-> "Failed to update note"])
    /\ Called(p, "get")
    /\ UNCHANGED <<notes, nextId, now>>

\* DELETE /notes/{id} up to the write: the ownership check of delete_note
DeleteCheck(p) ==
    /\ pc[p] = "handler" /\ local[p].kind = "delete"
    /\ LET r == local[p]
           existing_note == get_note_by_id(notes, r.note_id, r.current_user)
       IN  IF existing_note = None
           THEN Respond(p, [status |-> 404, detail |->
                  "Note not found or you don't have permission to delete it"])
           ELSE Continue(p, "delete_write", r)
    /\ Called(p, "get")
    /\ UNCHANGED <<notes, nextId, now>>

\* document(note_id).delete(): succeeds whether or not the document exists
DeleteWrite(p) ==
    /\ pc[p] = "delete_write"
    /\ notes' = [i \in (DOMAIN notes) \ {local[p].note_id} |-> notes[i]]
    /\ Respond(p, [status |-> 204])
    /\ Called(p, "delete")
    /\ UNCHANGED <<nextId, now>>

\* time passes
Tick ==
    /\ now < MaxTime
    /\ now' = now + 1
    /\ UNCHANGED <<notes, nextId, pc, local, resp, calls>>

\* ------------------------------------------------------------ the requests
ListReq(tok, search, page, page_size) ==
    [kind |-> "list", token |-> tok, search |-> search,
     page |-> page, page_size |-> page_size]
CreateReq(tok, body) == [kind |-> "create", token |-> tok, body |-> body]
UpdateReq(tok, id, body) ==
    [kind |-> "update", token |-> tok, note_id |-> id, body |-> body]
DeleteReq(tok, id) == [kind |-> "delete", token |-> tok, note_id |-> id]

StrWork == <<"W", "o", "r", "k">>
ColorLower == <<"#", "a", "b", "0", "1", "c", "f">>
ColorNewline == <<"#", "a", "b", "0", "1", "c", "f", "\n">>
ColorShort == <<"#", "a", "b", "0", "1", "c">>
ColorNotHex == <<"#", "a", "b", "0", "1", "c", "g">>
LongTitle == [i \in 1..(TitleMaxLen + 1) |-> "a"]

ValidCreateBodies ==
    { [title |-> Some(<<" ", "A", "b", " ">>), content |-> Some(<<"x", "\n">>)],
      [title |-> Some(<<"A", "b">>), content |-> Some(<<"x">>),
       tags |-> None, color |-> None] }

\* a body that sets every field
FullCreateBodies ==
    { [title |-> Some(<<"X">>), content |-> Some(<<"y">>), is_pinned |-> Some(TRUE),
       tags |-> Some(<<StrWork>>), color |-> Some(ColorLower)] }

InvalidCreateBodies ==
    { [title |-> Some(<<>>), content |-> Some(<<"x">>)],
      [title |-> Some(<<" ", "\t">>), content |-> Some(<<"x">>)],
      [title |-> Some(<<"A", "b">>), content |-> Some(<<"\n", " ">>)],
      [title |-> Some(<<"A", "b">>), content |-> Some(<<>>)],
      [content |-> Some(<<"x">>)],
      [title |-> Some(LongTitle), content |-> Some(<<"x">>)],
      [title |-> Some(<<"A", "b">>), content |-> Some(<<"x">>), is_pinned |-> None],
      [title |-> Some(<<"A", "b">>), content |-> Some(<<"x">>), color |-> Some(ColorShort)],
      [title |-> Some(<<"A", "b">>), content |-> Some(<<"x">>), color |-> Some(ColorNotHex)] }

\* a color with a trailing newline: not of the form #RRGGBB
NewlineCreateBodies ==
    { [title |-> Some(<<"A", "b">>), content |-> Some(<<"x">>), color |-> Some(ColorNewline)] }

ValidUpdateBodies ==
    { <<>>,
      [title |-> Some(<<" ", "X">>), content |-> None],
      [content |-> Some(<<"y", " ">>), is_pinned |-> Some(TRUE)],
      [tags |-> Some(<<StrWork>>), color |-> Some(ColorLower)] }

InvalidUpdateBodies ==
    { [title |-> Some(<<" ">>)],
      [title |-> Some(<<>>)],
      [content |-> Some(<<"\t">>), is_pinned |-> Some(TRUE)],
      [color |-> Some(ColorShort)] }

NewlineUpdateBodies == { [color |-> Some(ColorNewline)] }

UserTokens == {TokAlice, TokBob}
RejectedTokens == {TokNoUid, TokEmptyUid, TokExpired, TokBlank, TokEmpty}

\* note ids a request may name: the ids the store generates, and 0, which it never does
NoteIds(maxNotes) == 0..maxNotes

\* one request of each kind with each token the verifier rejects
RejectedRequests ==
    {ListReq(t, None, 1, 1) : t \in RejectedTokens}
    \cup {CreateReq(t, [title |-> Some(<<"A", "b">>), content |-> Some(<<"x">>)]) :
            t \in RejectedTokens}
    \cup {UpdateReq(t, 1, [title |-> Some(<<" ", "X">>)]) : t \in RejectedTokens}
    \cup {DeleteReq(t, 1) : t \in RejectedTokens}

\* the requests of Spec: alice creates, alice and bob update and delete with
\* the well-formed bodies, and one request of each kind has a rejected token
Requests ==
    {ListReq(TokAlice, s, pg, 1) : s \in {None, Some(<<"a", "B">>)}, pg \in {1, 2}}
    \cup {CreateReq(TokAlice, b) : b \in ValidCreateBodies}
    \cup {UpdateReq(t, id, b) : t \in UserTokens, id \in NoteIds(MaxNotes),
                                b \in ValidUpdateBodies}
    \cup {DeleteReq(t, id) : t \in UserTokens, id \in NoteIds(MaxNotes)}
    \cup RejectedRequests

\* the requests of SpecValidation: those of Spec, the bodies and queries the
\* validators are to refuse, and the colors that end in a newline
ValidationRequests ==
    Requests
    \cup {ListReq(TokAlice, None, pg, ps) : pg \in {0, 1}, ps \in {0, 1, PageSizeMax + 1}}
    \cup {CreateReq(TokAlice, b) :
            b \in FullCreateBodies \cup InvalidCreateBodies \cup NewlineCreateBodies}
    \cup {UpdateReq(TokAlice, id, b) : id \in NoteIds(MaxNotes),
            b \in InvalidUpdateBodies \cup NewlineUpdateBodies}

\* ------------------------------------------------------- the specifications
Init ==
    /\ notes = <<>>
    /\ nextId = 0
    /\ now = 1
    /\ pc = [p \in Workers |-> "idle"]
    /\ local = [p \in Workers |-> NoLocal]
    /\ resp = [p \in Workers |-> NoResp]
    /\ calls = [p \in Workers |-> <<>>]

Handle(p) ==
    \/ SolveDependencies(p)
    \/ GetNotes(p)
    \/ CreateNote(p)
    \/ CreateRefetch(p)
    \/ UpdateCheck(p)
    \/ UpdateWrite(p)
    \/ UpdateRefetch(p)
    \/ DeleteCheck(p)
    \/ DeleteWrite(p)

\* one worker, requests handled one after the other
Next ==
    \/ Receive(1, Requests, MaxNotes)
    \/ Handle(1)
    \/ Tick

Spec == Init /\ [][Next]_vars

\* one worker, the requests the validators decide
NextValidation ==
    \/ Receive(1, ValidationRequests, MaxNotes)
    \/ Handle(1)
    \/ Tick

SpecValidation == Init /\ [][NextValidation]_vars

\* one worker, more notes, few bodies: the owners' notes side by side
IsoCreateBodies ==
    { [title |-> Some(<<"A", "b">>), content |-> Some(<<"x">>), is_pinned |-> Some(TRUE)] }

IsoUpdateBodies == { [title |-> Some(<<"b">>)] }

IsoRequests ==
    {ListReq(t, s, pg, ps) : t \in UserTokens, s \in {None, Some(<<"a", "B">>)},
                             pg \in {1, 2}, ps \in {1}}
    \cup {CreateReq(t, b) : t \in UserTokens, b \in IsoCreateBodies}
    \cup {UpdateReq(t, id, b) : t \in UserTokens, id \in NoteIds(MaxNotesIso),
                                b \in IsoUpdateBodies}
    \cup {DeleteReq(t, id) : t \in UserTokens, id \in NoteIds(MaxNotesIso)}

NextIso ==
    \/ Receive(1, IsoRequests, MaxNotesIso)
    \/ Handle(1)
    \/ Tick

SpecIso == Init /\ [][NextIso]_vars

\* several workers on one collection: the handlers' store calls interleave
ConcRequests ==
    {CreateReq(TokAlice, [title |-> Some(<<"A", "b">>), content |-> Some(<<"x">>)])}
    \cup {UpdateReq(TokAlice, id, b) : id \in 1..MaxNotesConc,
            b \in {[title |-> Some(<<"X">>)], [is_pinned |-> Some(TRUE)]}}
    \cup {DeleteReq(t, id) : t \in UserTokens, id \in 1..MaxNotesConc}
    \cup {ListReq(TokAlice, None, 1, 1)}

NextConc ==
    \/ \E p \in Workers : Receive(p, ConcRequests, MaxNotesConc)
    \/ \E p \in Workers : Handle(p)
    \/ Tick

SpecConc == Init /\ [][NextConc]_vars

\* several workers, the clock at rest: updates and deletes of the owner race on
\* the first document added, lists and further creates run alongside
DelRequests ==
    {CreateReq(TokAlice, [title |-> Some(<<"A", "b">>), content |-> Some(<<"x">>)])}
    \cup {UpdateReq(TokAlice, 1, [title |-> Some(<<"X">>)])}
    \cup {DeleteReq(TokAlice, 1)}
    \cup {ListReq(TokAlice, None, 1, 1)}

NextDel ==
    \/ \E p \in Workers : Receive(p, DelRequests, MaxNotesConc)
    \/ \E p \in Workers : Handle(p)

SpecDel == Init /\ [][NextDel]_vars

\* ------------------------------------------------- the listing pipeline
\* documents a collection may hold: written by create_note, or older ones
\* without is_pinned, tags or updated_at
ListDocs ==
    { [user_id |-> "alice", title |-> <<"A", "b">>, content |-> <<"x">>,
       is_pinned |-> TRUE, tags |-> <<>>, color |-> DefaultColor,
       created_at |-> 1, updated_at |-> 2, synced |-> TRUE],
      [user_id |-> "alice", title |-> <<"b">>, content |-> <<"x">>,
       is_pinned |-> FALSE, tags |-> <<StrWork>>, color |-> DefaultColor,
       created_at |-> 1, updated_at |-> 1, synced |-> TRUE],
      [user_id |-> "alice", title |-> <<"b">>, content |-> <<"w", "o", "r">>,
       color |-> DefaultColor, created_at |-> 1],
      [user_id |-> "alice", title |-> <<"A", "b">>, content |-> <<"x">>,
       is_pinned |-> TRUE, tags |-> <<>>, color |-> DefaultColor, created_at |-> 1],
      [user_id |-> "bob", title |-> <<"A", "b">>, content |-> <<"x">>,
       is_pinned |-> FALSE, tags |-> <<StrWork>>, color |-> DefaultColor,
       created_at |-> 1, updated_at |-> 2, synced |-> TRUE],
      [user_id |-> "alice", title |-> <<"b">>, content |-> <<"x">>,
       is_pinned |-> FALSE, tags |-> <<>>, color |-> DefaultColor,
       created_at |-> 2, updated_at |-> 2, synced |-> TRUE],
      [user_id |-> "alice", title |-> <<"A", "b">>, content |-> <<"x">>,
       is_pinned |-> TRUE, tags |-> <<>>, color |-> DefaultColor,
       created_at |-> 1, updated_at |-> 1, synced |-> TRUE] }

ListUsers == {"alice", "bob"}
ListSearches == {None, Some(<<>>), Some(<<"w", "O", "r">>), Some(<<"a", "B">>)}
ListPages == {1, 2, 3}
ListPageSizes == {1, 2, PageSizeMax}

InitList ==
    /\ notes \in UNION {[1..n -> ListDocs] : n \in 0..MaxListLen}
    /\ nextId = Len(notes)
    /\ now = MaxTime
    /\ pc = [p \in Workers |-> "idle"]
    /\ local = [p \in Workers |-> NoLocal]
    /\ resp = [p \in Workers |-> NoResp]
    /\ calls = [p \in Workers |-> <<>>]

\* a call of FirebaseService.get_user_notes: it reads the collection once and
\* writes nothing, so one call per collection shows all it can return
CallGetUserNotes(p) ==
    /\ pc[p] = "idle"
    /\ \E user_id \in ListUsers, search \in ListSearches,
          page \in ListPages, page_size \in ListPageSizes :
         /\ local' = [local EXCEPT ![p] =
                        [kind |-> "get_user_notes", user_id |-> user_id,
                         search |-> search, page |-> page, page_size |-> page_size]]
         /\ resp' = [resp EXCEPT ![p] =
                       [status |-> 0,
                        result |-> get_user_notes(notes, user_id, search, page, page_size)]]
    /\ pc' = [pc EXCEPT ![p] = "returned"]
    /\ calls' = [calls EXCEPT ![p] = <<"stream">>]
    /\ UNCHANGED <<notes, nextId, now>>

NextList == CallGetUserNotes(1)

SpecList == InitList /\ [][NextList]_vars

\* ------------------------------------------------------------ the claims
\* the subject the identity provider vouches for, if any
HasSubject(token) ==
    /\ token \in DOMAIN DecodedTokens
    /\ "uid" \in DOMAIN DecodedTokens[token]
    /\ DecodedTokens[token].uid # ""
SubjectOf(token) == DecodedTokens[token].uid

Owned(user_id) == {i \in DOMAIN notes : notes[i].user_id = user_id}

\* C1: ownership isolation.  Whatever creates, updates and deletes came before, a
\* list request answers 200 with notes that are all stored under the requester's
\* own id at the time of the read, and a total no larger than the requester's
\* note count, for every search term and page.
C1_OwnershipIsolation ==
    [][\A p \in Workers :
         (pc[p] = "handler" /\ local[p].kind = "list" /\ pc'[p] = "idle") =>
            LET owner == SubjectOf(local[p].token)
                body == resp'[p].body
            IN  /\ resp'[p].status = 200
                /\ body.total <= Cardinality(Owned(owner))
                /\ \A i \in 1..Len(body.notes) : body.notes[i].id \in Owned(owner)]_vars

\* a search-filtered list answered with a note while the other user has notes too
C1_Witness ==
    \E p \in Workers :
        /\ pc[p] = "idle" /\ local[p].kind = "list" /\ resp[p].status = 200
        /\ local[p].search # None
        /\ Len(resp[p].body.notes) >= 1
        /\ Owned(SubjectOf(local[p].token)) # DOMAIN notes

NotFoundResponse(kind) ==
    [status |-> 404,
     detail |-> IF kind = "update"
                THEN "Note not found or you don't have permission to update it"
                ELSE "Note not found or you don't have permission to delete it"]

\* C2: an update or delete of a note that exists under another owner ends exactly
\* as one of an id that does not exist: the same 404 response, after one store
\* read and no write, the collection (updated_at included) unchanged.
C2_NotOwnerIsNotFound ==
    [][\A p \in Workers :
         ( /\ pc[p] = "handler" /\ local[p].kind \in {"update", "delete"}
           /\ pc'[p] # "handler"
           /\ local[p].note_id \notin Owned(SubjectOf(local[p].token)) ) =>
            /\ pc'[p] = "idle"
            /\ resp'[p] = NotFoundResponse(local[p].kind)
            /\ calls'[p] = <<"get">>
            /\ notes' = notes]_vars

\* bob's update of alice's note has been answered 404
C2_Witness ==
    \E p \in Workers :
        /\ pc[p] = "idle" /\ local[p].kind = "update" /\ resp[p].status = 404
        /\ local[p].note_id \in DOMAIN notes
        /\ notes[local[p].note_id].user_id # SubjectOf(local[p].token)

IsPinned(n) == "is_pinned" \in DOMAIN n /\ n.is_pinned
HasUpdatedAt(n) == "updated_at" \in DOMAIN n
UpdatedAtOrEpoch(n) == IF HasUpdatedAt(n) THEN n.updated_at ELSE 0

\* the spec's example: A(pinned, 10), B(unpinned, 20), C(pinned, 5)
ExampleNotes ==
    << [user_id |-> "alice", title |-> <<"A">>, content |-> <<"x">>,
        is_pinned |-> TRUE, updated_at |-> 10],
       [user_id |-> "alice", title |-> <<"B">>, content |-> <<"x">>,
        is_pinned |-> FALSE, updated_at |-> 20],
       [user_id |-> "alice", title |-> <<"C">>, content |-> <<"x">>,
        is_pinned |-> TRUE, updated_at |-> 5] >>

\* C3: the notes get_user_notes returns are ordered: every pinned note before
\* every unpinned one; within a pinned group by updated_at descending, a note
\* without updated_at counting as 0 and so after those that have one; notes
\* equal on both keys in retrieval (id) order.  The example yields [A, C, B].
C3_SortOrder ==
    /\ \A p \in Workers :
         pc[p] = "returned" =>
            LET L == resp[p].result.notes
            IN  \A i, j \in 1..Len(L) :
                  i < j =>
                    /\ IsPinned(L[j]) => IsPinned(L[i])
                    /\ IsPinned(L[i]) = IsPinned(L[j]) =>
                         /\ UpdatedAtOrEpoch(L[i]) >= UpdatedAtOrEpoch(L[j])
                         /\ ~HasUpdatedAt(L[i]) => ~HasUpdatedAt(L[j])
                         /\ UpdatedAtOrEpoch(L[i]) = UpdatedAtOrEpoch(L[j]) =>
                              L[i].id < L[j].id
    /\ LET L == get_user_notes(ExampleNotes, "alice", None, 1, 20).notes
       IN  [i \in 1..Len(L) |-> L[i].id] = <<1, 3, 2>>

\* three notes returned: pinned with a date, pinned without, then unpinned
C3_Witness ==
    \E p \in Workers :
        /\ pc[p] = "returned"
        /\ LET L == resp[p].result.notes
           IN  /\ Len(L) = 3
               /\ IsPinned(L[1]) /\ HasUpdatedAt(L[1])
               /\ IsPinned(L[2]) /\ ~HasUpdatedAt(L[2])
               /\ ~IsPinned(L[3])

\* C4: for page >= 1 and 1 <= page_size <= 100 the result holds exactly the
\* elements of the sorted filtered sequence at zero-based positions
\* [(page-1)*page_size, (page-1)*page_size + page_size) that exist, total is the
\* length of that sequence whatever the page, and a page past the end is empty.
\* Of 25 notes, page 2 of size 10 is ranks 11 to 20 and page 4 is empty.
C4_Pagination ==
    /\ \A p \in Workers :
         (pc[p] = "returned" /\ local[p].page >= 1
            /\ local[p].page_size \in 1..PageSizeMax) =>
            LET r == local[p]
                res == resp[p].result
                full == SortNotes(FilterNotes(QueryByOwner(notes, r.user_id), r.search))
                start == (r.page - 1) * r.page_size
                n == IF start >= Len(full) THEN 0
                     ELSE Min(r.page_size, Len(full) - start)
            IN  /\ Len(res.notes) = n
                /\ \A k \in 1..n : res.notes[k] = full[start + k]
                /\ res.total = Len(full)
                /\ res.page = r.page /\ res.page_size = r.page_size
    /\ LET ranked == [i \in 1..25 |-> i]
       IN  /\ Paginate(ranked, 2, 10) = [k \in 1..10 |-> 10 + k]
           /\ Paginate(ranked, 4, 10) = <<>>

\* page 2 of size 2 of three notes: the one note left, total 3
C4_Witness ==
    \E p \in Workers :
        /\ pc[p] = "returned"
        /\ local[p].page = 2 /\ local[p].page_size = 2
        /\ Len(resp[p].result.notes) = 1 /\ resp[p].result.total = 3

\* the same character, or the two cases of one letter
SameLetter(a, b) ==
    \/ a = b
    \/ \E i \in 1..Len(UpperLetters) : {a, b} = {UpperLetters[i], LowerLetters[i]}

\* term occurs in text, letter case aside
ContainsIgnoringCase(term, text) ==
    \E k \in 0..(Len(text) - Len(term)) :
        \A i \in 1..Len(term) : SameLetter(text[k + i], term[i])

KeptBySearch(doc, search) ==
    \/ search = None
    \/ search[1] = <<>>
    \/ ContainsIgnoringCase(search[1], doc.title)
    \/ ContainsIgnoringCase(search[1], doc.content)
    \/ /\ "tags" \in DOMAIN doc
       /\ \E t \in 1..Len(doc.tags) : ContainsIgnoringCase(search[1], doc.tags[t])

\* C5: get_user_notes keeps a note of the owner exactly when the search term is
\* absent or empty, or occurs, letter case aside, in the title, the content or
\* one of the tags: total counts those notes, every returned note is one of
\* them, and a page that has room for all returns them all.
C5_SearchFilter ==
    \A p \in Workers :
        pc[p] = "returned" =>
           LET r == local[p]
               res == resp[p].result
               kept == {i \in Owned(r.user_id) : KeptBySearch(notes[i], r.search)}
               ids == {res.notes[k].id : k \in 1..Len(res.notes)}
           IN  /\ res.total = Cardinality(kept)
               /\ ids \subseteq kept
               /\ (r.page = 1 /\ r.page_size >= Cardinality(kept)) => ids = kept

\* search "wOr" keeps a note only for its tag "Work" and drops another note
C5_Witness ==
    \E p \in Workers :
        /\ pc[p] = "returned"
        /\ local[p].search = Some(<<"w", "O", "r">>)
        /\ resp[p].result.total < Cardinality(Owned(local[p].user_id))
        /\ \E k \in 1..Len(resp[p].result.notes) :
             LET n == resp[p].result.notes[k]
             IN  /\ Get(n, "tags", <<>>) = <<StrWork>>
                 /\ ~ContainsIgnoringCase(<<"w", "o", "r">>, n.title)
                 /\ ~ContainsIgnoringCase(<<"w", "o", "r">>, n.content)

RequestKinds == {"list", "create", "update", "delete"}

Supplied(body, f) == f \in DOMAIN body /\ body[f] # None

\* what an accepted body stores for a supplied field
StoredForm(f, v) ==
    CASE f \in {"title", "content"} -> Strip(v)
      [] f = "color" -> Upper(v)
      [] OTHER -> v

\* C6: the write of an update by the owner changes, in the one document, exactly
\* the fields of title, content, is_pinned, tags, color that the body supplies
\* with a non-null value, sets updated_at to the time the service read from the
\* clock for this request (also for an empty body) and keeps every other field
\* (user_id, created_at, the omitted and the null ones); the request then
\* answers 200 with the stored note.
C6_UpdateFrame ==
    [][\A p \in Workers :
         /\ (pc[p] = "handler" /\ pc'[p] = "update_write") =>
               local'[p].update_data.updated_at = now
         /\ (pc[p] = "update_write" /\ pc'[p] = "update_refetch") =>
               LET r == local[p]
                   old == notes[r.note_id]
                   new == notes'[r.note_id]
               IN  /\ DOMAIN notes' = DOMAIN notes
                   /\ \A i \in DOMAIN notes \ {r.note_id} : notes'[i] = notes[i]
                   /\ DOMAIN new = DOMAIN old
                   /\ \A f \in UpdateFields :
                        new[f] = IF Supplied(r.body, f)
                                 THEN StoredForm(f, r.body[f][1]) ELSE old[f]
                   /\ new.updated_at = r.update_data.updated_at
                   /\ new.updated_at >= old.updated_at
                   /\ \A f \in DOMAIN old \ (UpdateFields \cup {"updated_at"}) :
                        new[f] = old[f]
         /\ (pc[p] = "update_refetch" /\ pc'[p] = "idle") =>
               /\ resp'[p].status = 200
               /\ resp'[p].body.id = local[p].note_id
               /\ \A f \in UpdateFields \cup {"created_at", "updated_at"} :
                    resp'[p].body[f] = notes[local[p].note_id][f]]_vars

\* an update {title: " X", content: null} answered 200: the title is X, the
\* content is as created, updated_at is later than created_at
C6_Witness ==
    \E p \in Workers :
        /\ pc[p] = "idle" /\ local[p].kind = "update" /\ resp[p].status = 200
        /\ DOMAIN local[p].body = {"title", "content"}
        /\ LET note == notes[local[p].note_id]
           IN  /\ note.title = <<"X">> /\ note.content = <<"x">>
               /\ ~note.is_pinned /\ note.tags = <<>> /\ note.color = DefaultColor
               /\ note.updated_at > note.created_at

IsBlank(v) == \A i \in 1..Len(v) : v[i] \in Whitespace

\* # and six hex digits, nothing else
IsRRGGBB(s) ==
    /\ Len(s) = 7
    /\ s[1] = "#"
    /\ \A i \in 2..7 : s[i] \in HexDigits

FailsValidation(r) ==
    \/ /\ r.kind \in {"create", "update"}
       /\ \/ \E f \in {"title", "content"} :
               Supplied(r.body, f) /\ IsBlank(r.body[f][1])
          \/ Supplied(r.body, "color") /\ ~IsRRGGBB(r.body.color[1])
    \/ /\ r.kind = "list"
       /\ (r.page < 1 \/ r.page_size < 1 \/ r.page_size > PageSizeMax)

\* C7: an authenticated request that fails validation (a create or update whose
\* title or content is empty or whitespace-only or whose color is not #RRGGBB, a
\* list with page < 1 or page_size outside [1,100]) issues no store call and
\* ends with a validation error (422).
C7_ValidationBeforeStore ==
    \A p \in Workers :
        ( /\ local[p].kind \in RequestKinds
          /\ HasSubject(local[p].token)
          /\ FailsValidation(local[p]) ) =>
            /\ calls[p] = <<>>
            /\ pc[p] \in {"received", "idle"}
            /\ pc[p] = "idle" => resp[p].status = 422

\* C8: a request whose token the identity verifier does not resolve to a
\* subject (verification fails, or the payload has no uid) issues no store call
\* and ends with 401; every store call is made on behalf of the token's subject.
C8_AuthBeforeStore ==
    \A p \in Workers :
        local[p].kind \in RequestKinds =>
            /\ ~HasSubject(local[p].token) =>
                 /\ calls[p] = <<>>
                 /\ pc[p] \in {"received", "idle"}
                 /\ pc[p] = "idle" => resp[p].status = 401
            /\ calls[p] # <<>> =>
                 /\ HasSubject(local[p].token)
                 /\ local[p].current_user = SubjectOf(local[p].token)

\* a delete of an existing note with a token whose payload has no uid ended 401
C8_Witness ==
    \E p \in Workers :
        /\ pc[p] = "idle" /\ local[p].kind = "delete" /\ resp[p].status = 401
        /\ local[p].token = TokNoUid
        /\ local[p].note_id \in DOMAIN notes
        /\ calls[p] = <<>>

IsTrimmedNonEmpty(v) ==
    /\ Len(v) >= 1
    /\ v[1] \notin Whitespace
    /\ v[Len(v)] \notin Whitespace

\* C9: every stored note has a non-empty, trimmed title and content and a color
\* that is # and six hex digits with no lower-case letter.
C9_StoredFieldsValid ==
    \A i \in DOMAIN notes :
        /\ IsTrimmedNonEmpty(notes[i].title)
        /\ IsTrimmedNonEmpty(notes[i].content)
        /\ IsRRGGBB(notes[i].color)
        /\ \A k \in 1..Len(notes[i].color) :
             \A j \in 1..Len(LowerLetters) : notes[i].color[k] # LowerLetters[j]

\* C10: with concurrent workers, every update or delete of an authenticated
\* user ends with success (200, 204) or not-found (404), never a server error.
C10_SuccessOrNotFound ==
    \A p \in Workers :
        ( /\ pc[p] = "idle"
          /\ local[p].kind \in {"update", "delete"}
          /\ HasSubject(local[p].token) ) =>
            resp[p].status \in {200, 204, 404}

\* the ids of the notes a response returns
ReturnedIds(r) ==
    IF r.status \notin {200, 201} THEN {}
    ELSE IF "notes" \in DOMAIN r.body
    THEN {r.body.notes[k].id : k \in 1..Len(r.body.notes)}
    ELSE {r.body.id}

\* C11: a deleted note stays deleted under every interleaving of workers: the
\* delete's write answers 204 and leaves its id absent, an id that was added and
\* is absent is absent after every step (the write of an update that passed its
\* ownership check before the delete adds no document), and no response of a
\* list, create or update returns a note whose id is absent from the store.
C11_DeletedStaysAbsent ==
    [][/\ \A i \in 1..nextId : i \notin DOMAIN notes => i \notin DOMAIN notes'
       /\ \A p \in Workers :
            /\ (pc[p] = "delete_write" /\ pc'[p] = "idle") =>
                  /\ resp'[p].status = 204
                  /\ local[p].note_id \notin DOMAIN notes'
            /\ (pc[p] = "update_write" /\ pc'[p] # "update_write") =>
                  DOMAIN notes' = DOMAIN notes
            /\ (pc[p] # "idle" /\ pc'[p] = "idle") =>
                  ReturnedIds(resp'[p]) \subseteq DOMAIN notes]_vars

\* an update passed its ownership check, another worker's delete of the same
\* note answered 204, then the update's write ran: the note is still absent
C11_Witness ==
    \E p, q \in Workers :
        /\ p # q
        /\ pc[q] = "idle" /\ local[q].kind = "delete" /\ resp[q].status = 204
        /\ pc[p] = "idle" /\ local[p].kind = "update"
        /\ calls[p] = <<"get", "update">>
        /\ local[p].note_id = local[q].note_id
        /\ local[p].note_id \in 1..nextId
        /\ local[p].note_id \notin DOMAIN notes

\* C12: with concurrent workers, no step lowers the stored updated_at of a note.
C12_UpdatedAtNeverDecreases ==
    [][\A i \in (DOMAIN notes) \cap (DOMAIN notes') :
          notes'[i].updated_at >= notes[i].updated_at]_vars

====
